---- MODULE Spec2Model ----
(***************************************************************************)
(* Model of controllers/perses/service_controller.go of the perses         *)
(* operator: PersesReconciler.reconcileService and createPersesService,    *)
(* run against a cluster that stores Perses parents and Service children.  *)
(*                                                                         *)
(* One reconcile invocation per request (parent identity) is a small       *)
(* process: every cluster call is one atomic step, together with the local *)
(* computation that follows it up to the next cluster call.  Invocations   *)
(* of different requests and changes made by others than the controller    *)
(* interleave between those steps.                                         *)
(*                                                                         *)
(* An optional object (a pointer that may be nil, an object that may be    *)
(* absent from the cluster) is a sequence of length 0 or 1.                *)
(***************************************************************************)
EXTENDS Integers, Sequences, FiniteSets, TLC

\* ------------------------------------------------------------------ bounds
\* number of disturbances in one behaviour: changes made by others than the
\* controller, and cluster calls that fail for a transient reason
MaxExt == 3
\* the same, where two requests are reconciled concurrently
MaxConcExt == 1

\* ------------------------------------------------------- program constants
ServicePort == 8080
ServiceTargetPort == 8080

\* ------------------------------------------------------------- identities
Names == {"p1", "p2"}
Namespaces == {"ns1", "ns2"}
\* every name/namespace pair a Service can be stored under
Keys == Names \X Namespaces
\* the reconcile requests the dispatcher issues: the parents' identities
Request1 == <<"p1", "ns1">>
Request2 == <<"p2", "ns2">>
Requests == {Request1, Request2}

\* ------------------------------------------------------- parent (Perses)
\* an image reference the labels cannot be derived from
BadImage == "perses@bad"
\* perses.Spec.Metadata: <<>> is nil; annotations: <<>> is nil
NoMetadata == <<>>
\* the specs a parent is given: image and metadata
ParentSpecs == {<<"perses:v1", NoMetadata>>, <<"perses:v2", NoMetadata>>,
                <<"perses:v1", <<[annotations |-> <<>>]>>>>,
                <<"perses:v1", <<[annotations |-> <<{"team=a"}>>]>>>>,
                <<BadImage, NoMetadata>>}

TypeAvailablePerses == "Available"
ConditionFalse == "False"
ConditionTrue == "True"

\* status conditions a parent can carry before this reconcile step runs
RunningCondition == [type |-> TypeAvailablePerses, status |-> ConditionTrue, reason |-> "Running", message |-> <<"ok">>]
InitConditions(req) == IF req[1] = "p1" THEN <<>> ELSE <<[type |-> "Degraded", status |-> ConditionFalse, reason |-> "Ok", message |-> <<"ok">>], RunningCondition>>

\* ------------------------------------------------------------------ errors
NilErr == "nil"
NotFoundErr == "NotFound"
TransientErr == "Transient"
AlreadyExistsErr == "AlreadyExists"
ConflictErr == "Conflict"
LabelsErr == "LabelsForPersesFailed"
OwnerRefErr == "SetControllerReferenceFailed"

\* apierrors.IsNotFound
IsNotFoundAlways(err) == TRUE
IsNotFound(err) == err = NotFoundErr

\* ------------------------------------------------- subreconciler results
\* (*ctrl.Result, error): result "nil" is the nil pointer
ContinueReconciling == [result |-> "nil", err |-> NilErr]
DoNotRequeue == [result |-> "norequeue", err |-> NilErr]
RequeueWithError(e) == [result |-> "requeue", err |-> e]
ShouldHaltOrRequeue(r) == r.result # "nil" \/ r.err # NilErr
\* no value returned yet
NoReturn == [result |-> "none", err |-> NilErr]

\* --------------------------------------------------- createPersesService
\* common.LabelsForPerses(image, name, perses): the derived label set
LabelsForPerses(configImage, name, perses) ==
    LET image == IF configImage # "" THEN configImage ELSE perses.image
    IN  IF image = BadImage
        THEN [ls |-> [name |-> "", version |-> ""], err |-> LabelsErr]
        ELSE [ls |-> [name |-> name, version |-> image], err |-> NilErr]

\* r.Config.PersesImage: the image flag of the operator; empty when unset
ConfigPersesImage == ""

\* ctrl.SetControllerReference(perses, ser, scheme): the owner references
\* of ser afterwards; fails when the scheme does not know the parent's type
SetControllerReference(perses, refs, schemeOk) ==
    IF ~schemeOk
    THEN [refs |-> refs, err |-> OwnerRefErr]
    ELSE [refs |-> <<[kind |-> "Perses", name |-> perses.name, uid |-> perses.uid, controller |-> TRUE]>>,
          err |-> NilErr]

\* the single port of the Service
ServicePorts == <<[name |-> "http", port |-> ServicePort, protocol |-> "TCP", targetPort |-> ServiceTargetPort]>>

\* the annotations of the desired Service
DesiredAnnotations(perses) ==
    IF perses.metadata # <<>> /\ perses.metadata[1].annotations # <<>>
    THEN perses.metadata[1].annotations[1]
    ELSE {}

\* mutants of createPersesService
createPersesServiceNoOwner(perses, schemeOk) ==
    LET l == LabelsForPerses(ConfigPersesImage, perses.name, perses)
    IN  IF l.err # NilErr THEN [ser |-> <<>>, err |-> l.err]
        ELSE [ser |-> <<[name |-> perses.name, namespace |-> perses.namespace,
                         annotations |-> DesiredAnnotations(perses), labels |-> l.ls,
                         type |-> "ClusterIP", ports |-> ServicePorts, selector |-> l.ls,
                         ownerReferences |-> <<>>, uid |-> 0, resourceVersion |-> 0]>>,
              err |-> NilErr]

createPersesServiceWrongNamespace(perses, schemeOk) ==
    LET l == LabelsForPerses(ConfigPersesImage, perses.name, perses)
        o == SetControllerReference(perses, <<>>, schemeOk)
    IN  IF l.err # NilErr THEN [ser |-> <<>>, err |-> l.err]
        ELSE IF o.err # NilErr THEN [ser |-> <<>>, err |-> o.err]
        ELSE [ser |-> <<[name |-> perses.name, namespace |-> "ns1",
                         annotations |-> DesiredAnnotations(perses), labels |-> l.ls,
                         type |-> "ClusterIP", ports |-> ServicePorts, selector |-> l.ls,
                         ownerReferences |-> o.refs, uid |-> 0, resourceVersion |-> 0]>>,
              err |-> NilErr]

createPersesServiceNoAnnotations(perses, schemeOk) ==
    LET l == LabelsForPerses(ConfigPersesImage, perses.name, perses)
        o == SetControllerReference(perses, <<>>, schemeOk)
    IN  IF l.err # NilErr THEN [ser |-> <<>>, err |-> l.err]
        ELSE IF o.err # NilErr THEN [ser |-> <<>>, err |-> o.err]
        ELSE [ser |-> <<[name |-> perses.name, namespace |-> perses.namespace,
                         annotations |-> {}, labels |-> l.ls,
                         type |-> "ClusterIP", ports |-> ServicePorts, selector |-> l.ls,
                         ownerReferences |-> o.refs, uid |-> 0, resourceVersion |-> 0]>>,
              err |-> NilErr]

createPersesServiceNameSelector(perses, schemeOk) ==
    LET l == LabelsForPerses(ConfigPersesImage, perses.name, perses)
        o == SetControllerReference(perses, <<>>, schemeOk)
    IN  IF l.err # NilErr THEN [ser |-> <<>>, err |-> l.err]
        ELSE IF o.err # NilErr THEN [ser |-> <<>>, err |-> o.err]
        ELSE [ser |-> <<[name |-> perses.name, namespace |-> perses.namespace,
                         annotations |-> DesiredAnnotations(perses), labels |-> l.ls,
                         type |-> "ClusterIP", ports |-> ServicePorts,
                         selector |-> [name |-> perses.name, version |-> ""],
                         ownerReferences |-> o.refs, uid |-> 0, resourceVersion |-> 0]>>,
              err |-> NilErr]

\* createPersesService(perses): the desired Service, or an error.  uid and
\* resourceVersion are the fields the server owns: 0 is unset.
createPersesService(perses, schemeOk) ==
    LET l == LabelsForPerses(ConfigPersesImage, perses.name, perses)
        o == SetControllerReference(perses, <<>>, schemeOk)
    IN  IF l.err # NilErr THEN [ser |-> <<>>, err |-> l.err]
        ELSE IF o.err # NilErr THEN [ser |-> <<>>, err |-> o.err]
        ELSE [ser |-> <<[name |-> perses.name, namespace |-> perses.namespace,
                         annotations |-> DesiredAnnotations(perses), labels |-> l.ls,
                         type |-> "ClusterIP", ports |-> ServicePorts, selector |-> l.ls,
                         ownerReferences |-> o.refs, uid |-> 0, resourceVersion |-> 0]>>,
              err |-> NilErr]

\* ------------------------------------------------- meta.SetStatusCondition
RECURSIVE FindCondition(_, _, _)
\* index of the condition of the given type in conds at or after i, 0 if none
FindCondition(conds, type, i) ==
    IF i > Len(conds) THEN 0
    ELSE IF conds[i].type = type THEN i
    ELSE FindCondition(conds, type, i + 1)

SetStatusCondition(conds, new) ==
    LET i == FindCondition(conds, new.type, 1)
    IN  IF i = 0 THEN Append(conds, new) ELSE [conds EXCEPT ![i] = new]

\* the condition reconcileService records when the build fails on the create path
BuildFailedConditionAvailable(perses, err2) ==
    [type |-> TypeAvailablePerses, status |-> ConditionTrue, reason |-> "Reconciling",
     message |-> <<"Failed to create Service for the custom resource", perses.name, err2>>]
BuildFailedCondition(perses, err2) ==
    [type |-> TypeAvailablePerses, status |-> ConditionFalse, reason |-> "Reconciling",
     message |-> <<"Failed to create Service for the custom resource", perses.name, err2>>]

\* ----------------------------------------------------- the cluster's side
\* what the server stores on create: it assigns uid and resourceVersion
ServerCreate(obj, now) == [obj EXCEPT !.uid = now, !.resourceVersion = now]
\* what an update request returns without persisting (client.DryRunAll):
\* the submitted object with the fields the server owns taken from the stored one
ServerDryRun(obj, stored) == [obj EXCEPT !.uid = stored.uid, !.resourceVersion = stored.resourceVersion]
\* what the server stores on update: a new resourceVersion when anything changes
ServerUpdate(obj, stored, now) ==
    LET merged == ServerDryRun(obj, stored)
    IN  IF merged = stored THEN stored ELSE [merged EXCEPT !.resourceVersion = now]
\* an update is refused when the submitted object names another version or incarnation
UpdateAccepted(obj, stored) ==
    /\ obj.resourceVersion \in {0, stored.resourceVersion}
    /\ obj.uid \in {0, stored.uid}

\* equality.Semantic.DeepEqual on two Services: every field is compared
SemanticDeepEqual(a, b) == a = b

\* the drift check of reconcileService
NeedsUpdateManagedFields(found, svc) ==
    \E f \in {"labels", "selector", "ports", "annotations", "ownerReferences"} : found[f] # svc[f]
NeedsUpdateAlways(found, svc) == TRUE
NeedsUpdateNever(found, svc) == FALSE
NeedsUpdateAnnotationsOnly(found, svc) == found.annotations # svc.annotations
NeedsUpdate(found, svc) == ~SemanticDeepEqual(found, svc)


\* ------------------------------------------------------------------ state
VARIABLES
    parents,    \* the cluster: request -> the stored Perses, if any
    services,   \* the cluster: name/namespace -> the stored Service, if any
    clock,      \* request -> the last uid / resourceVersion the server handed out for its objects
    scheme,     \* r.Scheme knows the Perses type
    ext,        \* disturbances so far: changes by others, transient call failures
    pc,         \* request -> where its invocation of reconcileService is
    perses,     \* request -> the local perses object
    found,      \* request -> the local found object
    svc,        \* request -> the local ser / svc object
    err2,       \* request -> the build error kept on the create path
    calls,      \* request -> the calls its current invocation has made
    ret,        \* request -> what its invocation returned
    quiet,      \* request -> nobody else changed its parent or child since its invocation began
    settled,    \* request -> the same since its previous invocation began, and that one returned continue
    begun       \* request -> the parent and child stored when its invocation began, while quiet

vars == <<parents, services, clock, scheme, ext, pc, perses, found, svc, err2, calls, ret, quiet, settled, begun>>
hist == <<quiet, settled, begun>>
cluster == <<parents, services, clock>>
locals == <<perses, found, svc, err2>>

Call(op, res) == [op |-> op, res |-> res]
Log(req, op, res) == calls' = [calls EXCEPT ![req] = Append(@, Call(op, res))]
\* the invocation returns r: its locals go out of scope
Return(req, r) ==
    /\ pc' = [pc EXCEPT ![req] = "done"]
    /\ ret' = [ret EXCEPT ![req] = r]
    /\ perses' = [perses EXCEPT ![req] = <<>>]
    /\ found' = [found EXCEPT ![req] = <<>>]
    /\ svc' = [svc EXCEPT ![req] = <<>>]
    /\ err2' = [err2 EXCEPT ![req] = NilErr]

\* every invocation fetches the child of the first parent
ServiceKeyFirstParent(p) == <<"p1", "ns1">>
\* types.NamespacedName{Name: perses.Name, Namespace: perses.Namespace}
ServiceKey(p) == <<p.name, p.namespace>>
\* the key the client derives from an object it is given
ObjectKey(obj) == <<obj.name, obj.namespace>>

NewPerses(req, uid, image, metadata, conds) ==
    [name |-> req[1], namespace |-> req[2], uid |-> uid, image |-> image,
     metadata |-> metadata, conditions |-> conds]

Init ==
    /\ \E image \in {"perses:v1", BadImage} :
         parents = [r \in Requests |-> <<NewPerses(r, 1, image, NoMetadata, InitConditions(r))>>]
    /\ services = [k \in Keys |-> <<>>]
    /\ clock = [r \in Requests |-> 1]
    /\ scheme \in BOOLEAN
    /\ ext = 0
    /\ pc = [r \in Requests |-> "done"]
    /\ perses = [r \in Requests |-> <<>>]
    /\ found = [r \in Requests |-> <<>>]
    /\ svc = [r \in Requests |-> <<>>]
    /\ err2 = [r \in Requests |-> NilErr]
    /\ calls = [r \in Requests |-> <<>>]
    /\ ret = [r \in Requests |-> NoReturn]
    /\ quiet = [r \in Requests |-> FALSE]
    /\ begun = [r \in Requests |-> <<>>]
    /\ settled = [r \in Requests |-> FALSE]

\* ------------------------------------------------------- reconcileService
\* a cluster call can fail for a transient reason while disturbances are left
Transient(limit) == IF ext < limit THEN {TransientErr} ELSE {}
Charge(err) == ext' = IF err = TransientErr THEN ext + 1 ELSE ext

\* the dispatcher invokes reconcileService(req): at most one invocation per
\* request is in flight
Start(req) ==
    /\ pc[req] = "done"
    /\ pc' = [pc EXCEPT ![req] = "getLatestPerses"]
    /\ calls' = [calls EXCEPT ![req] = <<>>]
    /\ ret' = [ret EXCEPT ![req] = NoReturn]
    /\ quiet' = [quiet EXCEPT ![req] = TRUE]
    /\ settled' = [settled EXCEPT ![req] = quiet[req] /\ ret[req] = ContinueReconciling]
    /\ begun' = [begun EXCEPT ![req] = <<[parent |-> parents[req], child |-> services[req],
                                          clock |-> clock[req]]>>]
    /\ UNCHANGED <<cluster, scheme, ext, locals>>

\* r.getLatestPerses(ctx, req, perses): the result and the error it returns
GetLatestPersesResult(err) ==
    IF err = NilErr THEN ContinueReconciling
    ELSE IF IsNotFound(err) THEN DoNotRequeue
    ELSE RequeueWithError(err)

\* what reconcileService returns when getLatestPerses says halt or requeue
HaltOrRequeueDropped(r) == ContinueReconciling
HaltOrRequeue(r) == r

GetLatestPerses(req, limit) ==
    /\ pc[req] = "getLatestPerses"
    /\ \E err \in (IF parents[req] = <<>> THEN {NotFoundErr} ELSE {NilErr}) \cup Transient(limit) :
         LET r == GetLatestPersesResult(err) IN
         /\ Log(req, "getPerses", err)
         /\ Charge(err)
         /\ IF ShouldHaltOrRequeue(r)
            THEN Return(req, HaltOrRequeue(r))
            ELSE /\ pc' = [pc EXCEPT ![req] = "getService"]
                 /\ perses' = [perses EXCEPT ![req] = parents[req]]
                 /\ UNCHANGED <<ret, found, svc, err2>>
    /\ UNCHANGED <<cluster, scheme, hist>>

\* mutants of AfterGetService: a build failure is never reported in the status
AfterGetServiceNoStatus(p, stored, err, schemeOk) ==
    LET b == createPersesService(p, schemeOk) IN
    IF err # NilErr
    THEN IF ~IsNotFound(err)
         THEN [next |-> "done", ret |-> RequeueWithError(err), perses |-> p,
               found |-> <<>>, svc |-> <<>>, err2 |-> NilErr, built |-> FALSE]
         ELSE IF b.err # NilErr
              THEN [next |-> "done", ret |-> RequeueWithError(b.err), perses |-> p,
                    found |-> <<>>, svc |-> <<>>, err2 |-> NilErr, built |-> TRUE]
              ELSE [next |-> "create", ret |-> NoReturn, perses |-> p,
                    found |-> <<>>, svc |-> b.ser, err2 |-> NilErr, built |-> TRUE]
    ELSE IF b.err # NilErr
         THEN [next |-> "done", ret |-> RequeueWithError(b.err), perses |-> p,
               found |-> stored, svc |-> <<>>, err2 |-> NilErr, built |-> TRUE]
         ELSE [next |-> "dryRun", ret |-> NoReturn, perses |-> p,
               found |-> stored, svc |-> b.ser, err2 |-> NilErr, built |-> TRUE]

\* a build failure the parent's conditions already report is not reported again
AfterGetServiceSkipsReported(p, stored, err, schemeOk) ==
    LET b == createPersesService(p, schemeOk)
        reported == \E i \in 1..Len(p.conditions) :
                       p.conditions[i] = BuildFailedCondition(p, b.err)
    IN
    IF err # NilErr
    THEN IF ~IsNotFound(err)
         THEN [next |-> "done", ret |-> RequeueWithError(err), perses |-> p,
               found |-> <<>>, svc |-> <<>>, err2 |-> NilErr, built |-> FALSE]
         ELSE IF b.err # NilErr
              THEN IF reported
                   THEN [next |-> "done", ret |-> RequeueWithError(b.err), perses |-> p,
                         found |-> <<>>, svc |-> <<>>, err2 |-> NilErr, built |-> TRUE]
                   ELSE [next |-> "statusUpdate", ret |-> NoReturn,
                         perses |-> [p EXCEPT !.conditions =
                                        SetStatusCondition(@, BuildFailedCondition(p, b.err))],
                         found |-> <<>>, svc |-> <<>>, err2 |-> b.err, built |-> TRUE]
              ELSE [next |-> "create", ret |-> NoReturn, perses |-> p,
                    found |-> <<>>, svc |-> b.ser, err2 |-> NilErr, built |-> TRUE]
    ELSE IF b.err # NilErr
         THEN [next |-> "done", ret |-> RequeueWithError(b.err), perses |-> p,
               found |-> stored, svc |-> <<>>, err2 |-> NilErr, built |-> TRUE]
         ELSE [next |-> "dryRun", ret |-> NoReturn, perses |-> p,
               found |-> stored, svc |-> b.ser, err2 |-> NilErr, built |-> TRUE]

\* a build failure is reported in the status on the update path too
AfterGetServiceStatusOnUpdatePath(p, stored, err, schemeOk) ==
    LET b == createPersesService(p, schemeOk) IN
    IF err # NilErr /\ ~IsNotFound(err)
    THEN [next |-> "done", ret |-> RequeueWithError(err), perses |-> p,
          found |-> <<>>, svc |-> <<>>, err2 |-> NilErr, built |-> FALSE]
    ELSE IF b.err # NilErr
         THEN [next |-> "statusUpdate", ret |-> NoReturn,
               perses |-> [p EXCEPT !.conditions =
                              SetStatusCondition(@, BuildFailedCondition(p, b.err))],
               found |-> IF err = NilErr THEN stored ELSE <<>>, svc |-> <<>>,
               err2 |-> b.err, built |-> TRUE]
         ELSE IF err # NilErr
              THEN [next |-> "create", ret |-> NoReturn, perses |-> p,
                    found |-> <<>>, svc |-> b.ser, err2 |-> NilErr, built |-> TRUE]
              ELSE [next |-> "dryRun", ret |-> NoReturn, perses |-> p,
                    found |-> stored, svc |-> b.ser, err2 |-> NilErr, built |-> TRUE]

\* what reconcileService does with the outcome of r.Get on the Service, up to
\* its next cluster call: where it goes, what it returns, its locals
AfterGetService(p, stored, err, schemeOk) ==
    LET b == createPersesService(p, schemeOk) IN
    IF err # NilErr
    THEN IF ~IsNotFound(err)
         THEN [next |-> "done", ret |-> RequeueWithError(err), perses |-> p,
               found |-> <<>>, svc |-> <<>>, err2 |-> NilErr, built |-> FALSE]
         ELSE IF b.err # NilErr
              THEN [next |-> "statusUpdate", ret |-> NoReturn,
                    perses |-> [p EXCEPT !.conditions =
                                   SetStatusCondition(@, BuildFailedCondition(p, b.err))],
                    found |-> <<>>, svc |-> <<>>, err2 |-> b.err, built |-> TRUE]
              ELSE [next |-> "create", ret |-> NoReturn, perses |-> p,
                    found |-> <<>>, svc |-> b.ser, err2 |-> NilErr, built |-> TRUE]
    ELSE IF b.err # NilErr
         THEN [next |-> "done", ret |-> RequeueWithError(b.err), perses |-> p,
               found |-> stored, svc |-> <<>>, err2 |-> NilErr, built |-> TRUE]
         ELSE [next |-> "dryRun", ret |-> NoReturn, perses |-> p,
               found |-> stored, svc |-> b.ser, err2 |-> NilErr, built |-> TRUE]

GetService(req, limit) ==
    /\ pc[req] = "getService"
    /\ LET p == perses[req][1]
           key == ServiceKey(p)
       IN  \E err \in (IF services[key] = <<>> THEN {NotFoundErr} ELSE {NilErr}) \cup Transient(limit) :
             LET a == AfterGetService(p, services[key], err, scheme) IN
             /\ Charge(err)
             /\ calls' = [calls EXCEPT ![req] =
                            IF a.built
                            THEN @ \o <<Call("get", err), Call("build", IF a.svc = <<>> THEN "err" ELSE NilErr)>>
                            ELSE Append(@, Call("get", err))]
             /\ IF a.next = "done"
                THEN Return(req, a.ret)
                ELSE /\ pc' = [pc EXCEPT ![req] = a.next]
                     /\ perses' = [perses EXCEPT ![req] = <<a.perses>>]
                     /\ found' = [found EXCEPT ![req] = a.found]
                     /\ svc' = [svc EXCEPT ![req] = a.svc]
                     /\ err2' = [err2 EXCEPT ![req] = a.err2]
                     /\ UNCHANGED ret
    /\ UNCHANGED <<cluster, scheme, hist>>

\* what reconcileService returns after r.Status().Update
AfterStatusUpdateBuildErrorOnly(err, buildErr) == RequeueWithError(buildErr)
AfterStatusUpdate(err, buildErr) ==
    IF err # NilErr THEN RequeueWithError(err) ELSE RequeueWithError(buildErr)

\* r.Status().Update(ctx, perses): refused when the parent is gone or replaced
StatusUpdate(req, limit) ==
    /\ pc[req] = "statusUpdate"
    /\ LET p == perses[req][1]
           ok == parents[req] # <<>> /\ parents[req][1].uid = p.uid
       IN  \E err \in (IF ok THEN {NilErr} ELSE {NotFoundErr}) \cup Transient(limit) :
             /\ Log(req, "statusUpdate", err)
             /\ Charge(err)
             /\ Return(req, AfterStatusUpdate(err, err2[req]))
             /\ parents' = IF err = NilErr
                           THEN [parents EXCEPT ![req] = <<[@[1] EXCEPT !.conditions = p.conditions]>>]
                           ELSE parents
    /\ UNCHANGED <<services, clock, scheme, hist>>

\* what reconcileService returns after r.Create
AfterCreateDropsError(err) == ContinueReconciling
AfterCreate(err) ==
    IF err # NilErr THEN RequeueWithError(err) ELSE ContinueReconciling

\* r.Create(ctx, ser)
CreateService(req, limit) ==
    /\ pc[req] = "create"
    /\ LET ser == svc[req][1]
           key == ObjectKey(ser)
       IN  \E err \in (IF services[key] = <<>> THEN {NilErr} ELSE {AlreadyExistsErr}) \cup Transient(limit) :
             /\ Log(req, "create", err)
             /\ Charge(err)
             /\ Return(req, AfterCreate(err))
             /\ IF err = NilErr
                THEN /\ clock' = [clock EXCEPT ![req] = @ + 1]
                     /\ services' = [services EXCEPT ![key] = <<ServerCreate(ser, clock[req] + 1)>>]
                ELSE UNCHANGED <<services, clock>>
    /\ UNCHANGED <<parents, scheme, hist>>

\* what reconcileService does after the dry-run update: the drift check
AfterDryRunIgnoresError(err, observed, normalized) ==
    IF NeedsUpdate(observed, normalized) THEN [next |-> "update", ret |-> NoReturn]
    ELSE [next |-> "done", ret |-> ContinueReconciling]
\* a drifted child is created anew
AfterDryRunRecreates(err, observed, normalized) ==
    IF err # NilErr THEN [next |-> "done", ret |-> RequeueWithError(err)]
    ELSE IF NeedsUpdate(observed, normalized) THEN [next |-> "create", ret |-> NoReturn]
    ELSE [next |-> "done", ret |-> ContinueReconciling]
AfterDryRunNoCheck(err, observed, normalized) ==
    IF err # NilErr THEN [next |-> "done", ret |-> RequeueWithError(err)]
    ELSE [next |-> "update", ret |-> NoReturn]
AfterDryRun(err, observed, normalized) ==
    IF err # NilErr THEN [next |-> "done", ret |-> RequeueWithError(err)]
    ELSE IF NeedsUpdate(observed, normalized) THEN [next |-> "update", ret |-> NoReturn]
    ELSE [next |-> "done", ret |-> ContinueReconciling]

\* r.Update(ctx, svc, client.DryRunAll)
DryRunUpdate(req, limit) ==
    /\ pc[req] = "dryRun"
    /\ LET obj == svc[req][1]
           key == ObjectKey(obj)
           ok == services[key] # <<>> /\ UpdateAccepted(obj, services[key][1])
       IN  \E err \in (IF ok THEN {NilErr}
                       ELSE IF services[key] = <<>> THEN {NotFoundErr} ELSE {ConflictErr})
                      \cup Transient(limit) :
             LET normalized == IF err = NilErr THEN ServerDryRun(obj, services[key][1]) ELSE obj
                 a == AfterDryRun(err, found[req][1], normalized)
             IN  /\ Log(req, "dryRun", err)
                 /\ Charge(err)
                 /\ IF a.next = "done"
                    THEN Return(req, a.ret)
                    ELSE /\ pc' = [pc EXCEPT ![req] = a.next]
                         /\ svc' = [svc EXCEPT ![req] = <<normalized>>]
                         /\ UNCHANGED <<ret, perses, found, err2>>
    /\ UNCHANGED <<cluster, scheme, hist>>

\* what reconcileService returns after the real update
AfterUpdateDropsError(err) == ContinueReconciling
AfterUpdate(err) ==
    IF err # NilErr THEN RequeueWithError(err) ELSE ContinueReconciling

\* r.Update(ctx, svc)
UpdateService(req, limit) ==
    /\ pc[req] = "update"
    /\ LET obj == svc[req][1]
           key == ObjectKey(obj)
           ok == services[key] # <<>> /\ UpdateAccepted(obj, services[key][1])
       IN  \E err \in (IF ok THEN {NilErr}
                       ELSE IF services[key] = <<>> THEN {NotFoundErr} ELSE {ConflictErr})
                      \cup Transient(limit) :
             /\ Log(req, "update", err)
             /\ Charge(err)
             /\ Return(req, AfterUpdate(err))
             /\ IF err = NilErr
                THEN LET new == ServerUpdate(obj, services[key][1], clock[req] + 1) IN
                     /\ clock' = [clock EXCEPT ![req] = @ + 1]
                     /\ services' = [services EXCEPT ![key] = <<new>>]
                ELSE UNCHANGED <<services, clock>>
    /\ UNCHANGED <<parents, scheme, hist>>

\* ------------------------------------------ one invocation, run on its own
\* the calls of reconcileService
CallNames == {"getPerses", "get", "statusUpdate", "create", "dryRun", "update"}
\* the error of a call: transient when it is the call chosen to fail
ErrorOf(op, fault, natural) == IF fault = op THEN TransientErr ELSE natural

\* reconcileService run from beginning to end with nothing in between, on the
\* stored parent and child given, where the call named fault, if any, fails:
\* the calls it makes, what it returns, the child and the parent's conditions
\* stored afterwards
Pass(parent, child, schemeOk, fault, now) ==
    LET e0 == ErrorOf("getPerses", fault, IF parent = <<>> THEN NotFoundErr ELSE NilErr)
        r0 == GetLatestPersesResult(e0)
        conds == IF parent = <<>> THEN <<>> ELSE parent[1].conditions
    IN
    IF ShouldHaltOrRequeue(r0)
    THEN [calls |-> <<Call("getPerses", e0)>>, ret |-> HaltOrRequeue(r0), child |-> child, conditions |-> conds]
    ELSE
    LET e1 == ErrorOf("get", fault, IF child = <<>> THEN NotFoundErr ELSE NilErr)
        a == AfterGetService(parent[1], child, e1, schemeOk)
        log1 == <<Call("getPerses", e0), Call("get", e1)>>
                \o (IF a.built THEN <<Call("build", IF a.svc = <<>> THEN "err" ELSE NilErr)>> ELSE <<>>)
    IN
    IF a.next = "done"
    THEN [calls |-> log1, ret |-> a.ret, child |-> child, conditions |-> conds]
    ELSE IF a.next = "statusUpdate"
    THEN LET e == ErrorOf("statusUpdate", fault, NilErr)
         IN  [calls |-> Append(log1, Call("statusUpdate", e)), ret |-> AfterStatusUpdate(e, a.err2),
              child |-> child, conditions |-> IF e = NilErr THEN a.perses.conditions ELSE conds]
    ELSE IF a.next = "create"
    THEN LET e == ErrorOf("create", fault, NilErr)
         IN  [calls |-> Append(log1, Call("create", e)), ret |-> AfterCreate(e),
              child |-> IF e = NilErr THEN <<ServerCreate(a.svc[1], now)>> ELSE child,
              conditions |-> conds]
    ELSE
    LET e2 == ErrorOf("dryRun", fault, NilErr)
        normalized == IF e2 = NilErr THEN ServerDryRun(a.svc[1], child[1]) ELSE a.svc[1]
        d == AfterDryRun(e2, a.found[1], normalized)
        log2 == Append(log1, Call("dryRun", e2))
    IN
    IF d.next = "done"
    THEN [calls |-> log2, ret |-> d.ret, child |-> child, conditions |-> conds]
    ELSE LET e3 == ErrorOf("update", fault, NilErr)
         IN  [calls |-> Append(log2, Call("update", e3)), ret |-> AfterUpdate(e3),
              child |-> IF e3 = NilErr THEN <<ServerUpdate(normalized, child[1], now)>> ELSE child,
              conditions |-> conds]

\* ------------------------------------------- changes made by anyone else
Disturb(req) ==
    /\ quiet' = [quiet EXCEPT ![req] = FALSE]
    /\ settled' = [settled EXCEPT ![req] = FALSE]
    /\ begun' = [begun EXCEPT ![req] = <<>>]

\* the parent's spec is edited
ExtChangeParent(req, limit) ==
    /\ ext < limit
    /\ parents[req] # <<>>
    /\ \E s \in ParentSpecs :
         /\ s # <<parents[req][1].image, parents[req][1].metadata>>
         /\ parents' = [parents EXCEPT ![req] = <<[@[1] EXCEPT !.image = s[1], !.metadata = s[2]]>>]
    /\ ext' = ext + 1
    /\ Disturb(req)
    /\ UNCHANGED <<services, clock, scheme, pc, locals, calls, ret>>

\* the parent is deleted
ExtDeleteParent(req, limit) ==
    /\ ext < limit
    /\ parents[req] # <<>>
    /\ parents' = [parents EXCEPT ![req] = <<>>]
    /\ ext' = ext + 1
    /\ Disturb(req)
    /\ UNCHANGED <<services, clock, scheme, pc, locals, calls, ret>>

\* a parent of this identity is created: a new object with a new uid
ExtCreateParent(req, limit) ==
    /\ ext < limit
    /\ parents[req] = <<>>
    /\ parents' = [parents EXCEPT ![req] = <<NewPerses(req, clock[req] + 1, "perses:v1", NoMetadata, <<>>)>>]
    /\ clock' = [clock EXCEPT ![req] = @ + 1]
    /\ ext' = ext + 1
    /\ Disturb(req)
    /\ UNCHANGED <<services, scheme, pc, locals, calls, ret>>

\* the out-of-band edits of a stored Service
ChildEdits(c) ==
    { [c EXCEPT !.labels = [name |-> c.name, version |-> "edited"]],
      [c EXCEPT !.ports = <<>>],
      [c EXCEPT !.ownerReferences = <<>>],
      [c EXCEPT !.annotations = @ \cup {"stale=1"}] } \ {c}

ExtEditChild(req, limit) ==
    /\ ext < limit
    /\ services[req] # <<>>
    /\ \E e \in ChildEdits(services[req][1]) :
         services' = [services EXCEPT ![req] = <<[e EXCEPT !.resourceVersion = clock[req] + 1]>>]
    /\ clock' = [clock EXCEPT ![req] = @ + 1]
    /\ ext' = ext + 1
    /\ Disturb(req)
    /\ UNCHANGED <<parents, scheme, pc, locals, calls, ret>>

\* the Service is deleted: by a user, or by the garbage collector
ExtDeleteChild(req, limit) ==
    /\ ext < limit
    /\ services[req] # <<>>
    /\ services' = [services EXCEPT ![req] = <<>>]
    /\ ext' = ext + 1
    /\ Disturb(req)
    /\ UNCHANGED <<parents, clock, scheme, pc, locals, calls, ret>>

Reconcile(req, limit) ==
    \/ Start(req)
    \/ GetLatestPerses(req, limit)
    \/ GetService(req, limit)
    \/ StatusUpdate(req, limit)
    \/ CreateService(req, limit)
    \/ DryRunUpdate(req, limit)
    \/ UpdateService(req, limit)

External(req, limit) ==
    \/ ExtChangeParent(req, limit)
    \/ ExtDeleteParent(req, limit)
    \/ ExtCreateParent(req, limit)
    \/ ExtEditChild(req, limit)
    \/ ExtDeleteChild(req, limit)

\* one request, reconciled again and again
Next == \E req \in {Request1} : Reconcile(req, MaxExt) \/ External(req, MaxExt)

Spec == Init /\ [][Next]_vars

\* the dispatcher owes req an invocation: its last one asked for a requeue, or
\* its parent or child changed since its last one began
Triggered(req) == ~quiet[req] \/ ret[req].result = "requeue"
\* the steps of an invocation that is in flight
Proceed(req) ==
    \/ GetLatestPerses(req, MaxExt)
    \/ GetService(req, MaxExt)
    \/ StatusUpdate(req, MaxExt)
    \/ CreateService(req, MaxExt)
    \/ DryRunUpdate(req, MaxExt)
    \/ UpdateService(req, MaxExt)

\* the same behaviours, where the dispatcher invokes every request it owes an
\* invocation and an invocation in flight runs on; disturbances are finite
LiveSpec ==
    /\ Init /\ [][Next]_vars
    /\ WF_vars(Triggered(Request1) /\ Start(Request1))
    /\ WF_vars(Proceed(Request1))

\* two requests, reconciled concurrently
ConcExternal(req) ==
    \/ ExtChangeParent(req, MaxConcExt)
    \/ ExtDeleteParent(req, MaxConcExt)
    \/ ExtEditChild(req, MaxConcExt)
    \/ ExtDeleteChild(req, MaxConcExt)

ConcNext == \E req \in Requests : Reconcile(req, MaxConcExt) \/ ConcExternal(req)

ConcSpec == Init /\ [][ConcNext]_vars

\* ------------------------------------------------------- reading the log
RECURSIVE Count(_, _)
\* how many calls of the log were calls of op
Count(log, op) ==
    IF log = <<>> THEN 0
    ELSE (IF Head(log).op = op THEN 1 ELSE 0) + Count(Tail(log), op)

HasCall(log, op, res) == \E i \in 1..Len(log) : log[i] = Call(op, res)
\* the calls that persist something
PersistedWrites(log) == Count(log, "create") + Count(log, "update") + Count(log, "statusUpdate")
\* the step in which req's call of op returns res
Returns(req, op, res) == calls'[req] = Append(calls[req], Call(op, res))

\* ------------------------------------------------------------------ claims

\* C1 (creation): when the child fetch returns not-found and the build and the
\* create call succeed, the invocation has issued exactly one create and no
\* update, dry-run update or status update; the child now stored has the
\* parent's name and namespace, selector = labels = the derived label set,
\* the single port {http, 8080, TCP, 8080} and a controller owner reference to
\* the parent; the invocation returns continue with no error.
C1_Creation ==
    [][\A req \in Requests :
         (/\ Returns(req, "create", NilErr)
          /\ HasCall(calls[req], "get", NotFoundErr)
          /\ HasCall(calls[req], "build", NilErr))
         => LET P == perses[req][1]
                derived == LabelsForPerses(ConfigPersesImage, P.name, P).ls
                stored == services'[<<P.name, P.namespace>>]
            IN  /\ Count(calls'[req], "create") = 1
                /\ Count(calls'[req], "update") = 0
                /\ Count(calls'[req], "dryRun") = 0
                /\ Count(calls'[req], "statusUpdate") = 0
                /\ pc'[req] = "done"
                /\ ret'[req] = [result |-> "nil", err |-> "nil"]
                /\ services[<<P.name, P.namespace>>] = <<>>
                /\ Len(stored) = 1
                /\ stored[1].name = P.name /\ stored[1].namespace = P.namespace
                /\ stored[1].labels = derived /\ stored[1].selector = derived
                /\ stored[1].ports = <<[name |-> "http", port |-> 8080, protocol |-> "TCP", targetPort |-> 8080]>>
                /\ stored[1].ownerReferences =
                       <<[kind |-> "Perses", name |-> P.name, uid |-> P.uid, controller |-> TRUE]>>
                /\ \A k \in Keys \ {<<P.name, P.namespace>>} : services'[k] = services[k]
      ]_vars

C1_Witness ==
    /\ pc[Request1] = "done"
    /\ calls[Request1] = <<Call("getPerses", NilErr), Call("get", NotFoundErr),
                           Call("build", NilErr), Call("create", NilErr)>>
    /\ services[Request1] # <<>>
    /\ ret[Request1] = ContinueReconciling

\* the step in which req's child fetch returns err
GetReturns(req, err) ==
    /\ pc[req] = "getService"
    /\ Len(calls'[req]) > Len(calls[req])
    /\ calls'[req][Len(calls[req]) + 1] = Call("get", err)

AllCallsSucceeded(log) == \A i \in 1..Len(log) : log[i].res = NilErr
IsRequeueWithError(r) == r.result = "requeue" /\ r.err # NilErr

\* C2 as stated (idempotence): a pass that follows a pass that returned
\* continue, with no change by anyone else since that pass began, and that
\* resolves its parent, issues no persisted write and returns continue.
C2_Original ==
    \A req \in Requests :
        (pc[req] = "done" /\ settled[req] /\ HasCall(calls[req], "getPerses", NilErr))
        => PersistedWrites(calls[req]) = 0 /\ ret[req] = ContinueReconciling

\* C2 amended: such a pass issues no persisted write; it returns continue when
\* all its cluster calls succeed, and requeue-with-error when one of them fails.
C2_Idempotence ==
    \A req \in Requests :
        (pc[req] = "done" /\ settled[req])
        => /\ PersistedWrites(calls[req]) = 0
           /\ AllCallsSucceeded(calls[req]) => ret[req] = ContinueReconciling
           /\ ~AllCallsSucceeded(calls[req]) => IsRequeueWithError(ret[req])

\* the first pass created the child, the second took the update branch
C2_Witness ==
    /\ pc[Request1] = "done" /\ settled[Request1] /\ ext = 0
    /\ services[Request1] # <<>>
    /\ calls[Request1] = <<Call("getPerses", NilErr), Call("get", NilErr),
                           Call("build", NilErr), Call("dryRun", NilErr)>>
    /\ ret[Request1] = ContinueReconciling

\* C3 (drift correction): when the child exists with labels other than the
\* derived ones and the build and the dry-run update succeed, the real update
\* is issued next; when it succeeds too, the invocation has made exactly the
\* calls parent fetch, child fetch, build, dry-run update, real update, in
\* that order (one real update, after the dry run, no create, no status
\* update) and returns continue.
C3_DriftCorrection ==
    [][\A req \in Requests :
         LET drift == /\ found[req] # <<>> /\ perses[req] # <<>>
                      /\ found[req][1].labels #
                            LabelsForPerses(ConfigPersesImage, perses[req][1].name, perses[req][1]).ls
         IN  /\ (Returns(req, "dryRun", NilErr) /\ drift)
                 => pc'[req] = "update" /\ ret'[req] = NoReturn
             /\ (Returns(req, "update", NilErr) /\ drift)
                 => /\ calls'[req] = <<Call("getPerses", NilErr), Call("get", NilErr), Call("build", NilErr),
                                        Call("dryRun", NilErr), Call("update", NilErr)>>
                    /\ pc'[req] = "done"
                    /\ ret'[req] = ContinueReconciling
      ]_vars

\* the child was created for image v1, the parent then moved to v2, and a
\* pass has rewritten the child's labels
C3_Witness ==
    /\ pc[Request1] = "done" /\ ext = 1
    /\ parents[Request1] # <<>> /\ parents[Request1][1].image = "perses:v2"
    /\ services[Request1] # <<>>
    /\ services[Request1][1].uid = 2 /\ services[Request1][1].resourceVersion = 3
    /\ services[Request1][1].labels.version = "perses:v2"
    /\ calls[Request1] # <<>>
    /\ calls[Request1][Len(calls[Request1])] = Call("update", NilErr)
    /\ ret[Request1] = ContinueReconciling

\* C4 (no spurious update): when the observed child and the locally built
\* child differ in nothing but uid and resourceVersion, and the dry run fills
\* these two with the observed child's values, the invocation returns continue
\* at once: no real update is issued and the cluster is left as it is.
C4_NoSpuriousUpdate ==
    [][\A req \in Requests :
         (/\ Returns(req, "dryRun", NilErr)
          /\ [found[req][1] EXCEPT !.uid = 0, !.resourceVersion = 0] = svc[req][1]
          /\ services[ObjectKey(svc[req][1])][1].uid = found[req][1].uid
          /\ services[ObjectKey(svc[req][1])][1].resourceVersion = found[req][1].resourceVersion)
         => /\ pc'[req] = "done"
            /\ ret'[req] = ContinueReconciling
            /\ Count(calls'[req], "update") = 0
            /\ services' = services
      ]_vars

\* the observed child carries a uid and a resourceVersion the built one lacks
C4_Witness ==
    /\ pc[Request1] = "done"
    /\ calls[Request1] = <<Call("getPerses", NilErr), Call("get", NilErr),
                           Call("build", NilErr), Call("dryRun", NilErr)>>
    /\ ret[Request1] = ContinueReconciling
    /\ services[Request1] # <<>> /\ services[Request1][1].uid > 0
    /\ parents[Request1] # <<>>
    /\ createPersesService(parents[Request1][1], scheme).ser =
          <<[services[Request1][1] EXCEPT !.uid = 0, !.resourceVersion = 0]>>

IsBuildFailure(c) == c.type = "Available" /\ c.status = "False" /\ c.reason = "Reconciling"

\* C5 (build failure escalation): when the child fetch returns not-found and
\* createPersesService fails, the local parent gets exactly one condition of
\* type Available, with status False and reason Reconciling, and the next call
\* is the status update; whatever that returns, the invocation returns
\* requeue-with-error having issued no create, and when the status update
\* succeeds the stored parent carries the condition.
C5_BuildFailureEscalation ==
    [][\A req \in Requests :
         /\ (GetReturns(req, NotFoundErr) /\ HasCall(calls'[req], "build", "err"))
             => /\ pc'[req] = "statusUpdate"
                /\ Cardinality({i \in 1..Len(perses'[req][1].conditions) :
                                  perses'[req][1].conditions[i].type = "Available"}) = 1
                /\ \E i \in 1..Len(perses'[req][1].conditions) :
                      IsBuildFailure(perses'[req][1].conditions[i])
                /\ cluster' = cluster
         /\ (pc[req] = "statusUpdate" /\ pc'[req] # "statusUpdate")
             => /\ Count(calls'[req], "statusUpdate") = 1
                /\ Count(calls'[req], "create") = 0
                /\ pc'[req] = "done"
                /\ IsRequeueWithError(ret'[req])
                /\ services' = services
                /\ Returns(req, "statusUpdate", NilErr)
                     => \E i \in 1..Len(parents'[req][1].conditions) :
                           IsBuildFailure(parents'[req][1].conditions[i])
      ]_vars

C5_Witness ==
    /\ pc[Request1] = "done"
    /\ calls[Request1] = <<Call("getPerses", NilErr), Call("get", NotFoundErr),
                           Call("build", "err"), Call("statusUpdate", NilErr)>>
    /\ parents[Request1] # <<>>
    /\ \E i \in 1..Len(parents[Request1][1].conditions) :
          IsBuildFailure(parents[Request1][1].conditions[i])
    /\ IsRequeueWithError(ret[Request1])
    /\ services[Request1] = <<>>

\* C6 (transient read failure): when the child fetch fails with an error other
\* than not-found, the invocation returns requeue-with-error carrying that
\* error, having called neither the builder nor create, dry-run update, real
\* update or status update; when the child fetch returns not-found, the
\* invocation does not return: it goes on to create or to the status update.
C6_TransientReadFailure ==
    [][\A req \in Requests :
         /\ \A err \in {TransientErr, AlreadyExistsErr, ConflictErr} :
              GetReturns(req, err)
              => /\ pc'[req] = "done"
                 /\ ret'[req] = [result |-> "requeue", err |-> err]
                 /\ calls'[req] = Append(calls[req], Call("get", err))
                 /\ \A op \in {"build", "create", "dryRun", "update", "statusUpdate"} :
                       Count(calls'[req], op) = 0
                 /\ cluster' = cluster
         /\ GetReturns(req, NotFoundErr) => pc'[req] \in {"create", "statusUpdate"}
      ]_vars

C6_Witness ==
    /\ pc[Request1] = "done"
    /\ calls[Request1] = <<Call("getPerses", NilErr), Call("get", TransientErr)>>
    /\ ret[Request1] = RequeueWithError(TransientErr)

\* the parent exists and createPersesService succeeds on it
Buildable(req) ==
    /\ parents[req] # <<>>
    /\ createPersesService(parents[req][1], scheme).err = NilErr
\* the child exists and is the desired child as the server normalizes it
Converged(req) ==
    /\ Buildable(req)
    /\ services[req] # <<>>
    /\ services[req][1] = ServerDryRun(createPersesService(parents[req][1], scheme).ser[1], services[req][1])

\* C7 (convergence): when the parent is, from some point on, present and
\* buildable, then from some point on the child exists and equals the
\* server-normalized desired child, every finished pass has returned continue,
\* and a pass begun after a pass that returned continue has issued no
\* persisted write.
C7_Convergence ==
    <>[]Buildable(Request1)
    => <>[](/\ Converged(Request1)
            /\ pc[Request1] = "done" => ret[Request1] = ContinueReconciling
            /\ settled[Request1] => PersistedWrites(calls[Request1]) = 0)

\* converged again after the child was deleted out of band: the child was
\* created, deleted by someone else, and created anew
C7_Witness ==
    /\ Converged(Request1)
    /\ pc[Request1] = "done" /\ ret[Request1] = ContinueReconciling
    /\ ext = 1 /\ parents[Request1][1].uid = 1
    /\ services[Request1][1].uid = 3 /\ services[Request1][1].resourceVersion = 3

\* the controller owner reference to the parent p
OwnerRefTo(p) == <<[kind |-> "Perses", name |-> p.name, uid |-> p.uid, controller |-> TRUE]>>

\* C8 as stated (ownership), for children that carry an owner reference: in
\* every state in which a parent and its child exist, the child's owner
\* reference points to the current parent.
C8_Original ==
    \A req \in Requests :
        (parents[req] # <<>> /\ services[req] # <<>> /\ services[req][1].ownerReferences # <<>>)
        => services[req][1].ownerReferences = OwnerRefTo(parents[req][1])

\* C8 amended: every child passed to create, to the dry-run update or to the
\* real update carries a controller owner reference to the parent resolved in
\* the same invocation, so does the child stored by a successful create or
\* real update; and when a pass returns continue and nobody else changed the
\* parent or the child since it began, the stored child's owner reference
\* points to the current parent.
C8_Ownership ==
    [][\A req \in Requests :
         /\ pc'[req] \in {"create", "dryRun", "update"}
             => svc'[req][1].ownerReferences = OwnerRefTo(perses'[req][1])
         /\ (Returns(req, "create", NilErr) \/ Returns(req, "update", NilErr))
             => /\ services'[req] # <<>>
                /\ services'[req][1].ownerReferences = OwnerRefTo(perses[req][1])
         /\ (pc'[req] = "done" /\ quiet'[req] /\ ret'[req] = ContinueReconciling)
             => /\ parents'[req] # <<>> /\ services'[req] # <<>>
                /\ services'[req][1].ownerReferences = OwnerRefTo(parents'[req][1])
      ]_vars

\* the parent was replaced after the child was created, and a pass has
\* rewritten the child's owner reference to the new parent
C8_Witness ==
    /\ pc[Request1] = "done" /\ ret[Request1] = ContinueReconciling
    /\ calls[Request1] # <<>>
    /\ calls[Request1][Len(calls[Request1])] = Call("update", NilErr)
    /\ parents[Request1] # <<>> /\ parents[Request1][1].uid = 3
    /\ services[Request1] # <<>> /\ services[Request1][1].uid = 2
    /\ services[Request1][1].ownerReferences = OwnerRefTo(parents[Request1][1])

\* C9 (identity): the parent an invocation for a request resolves has the
\* request's name and namespace, and so have the child it fetched and the
\* child it passes to create, dry-run update and real update; every stored
\* Service is stored under a parent's identity and carries that identity, so
\* each parent has at most one child.
C9_Identity ==
    /\ \A req \in Requests :
          /\ perses[req] # <<>> => <<perses[req][1].name, perses[req][1].namespace>> = req
          /\ found[req] # <<>> => <<found[req][1].name, found[req][1].namespace>> = req
          /\ svc[req] # <<>> => <<svc[req][1].name, svc[req][1].namespace>> = req
    /\ \A k \in Keys :
          services[k] # <<>>
          => /\ k \in Requests
             /\ <<services[k][1].name, services[k][1].namespace>> = k
             /\ \A o \in 1..Len(services[k][1].ownerReferences) :
                   services[k][1].ownerReferences[o].name = k[1]

\* both parents have their child, each under its own identity
C9_Witness ==
    /\ services[Request1] # <<>> /\ services[Request2] # <<>>
    /\ services[Request1][1].name = "p1" /\ services[Request1][1].namespace = "ns1"
    /\ services[Request2][1].name = "p2" /\ services[Request2][1].namespace = "ns2"
    /\ pc[Request1] = "done" /\ pc[Request2] = "done"
    /\ Count(calls[Request1], "create") = 1 /\ Count(calls[Request2], "create") = 1

\* a call of the log that failed; a child fetch that returns not-found has not
CallFailed(c) == c.res # NilErr /\ c # Call("get", NotFoundErr)

\* C10 (no error is dropped): an invocation that resolved its parent returns
\* either continue or requeue with a non-nil error; it returns requeue with a
\* non-nil error when one of child fetch, builder, status update, create,
\* dry-run update and real update failed, and continue only when none did.
C10_NoErrorDropped ==
    \A req \in Requests :
        (pc[req] = "done" /\ HasCall(calls[req], "getPerses", NilErr))
        => /\ ret[req] = ContinueReconciling \/ IsRequeueWithError(ret[req])
           /\ (\E i \in 1..Len(calls[req]) : CallFailed(calls[req][i])) => IsRequeueWithError(ret[req])
           /\ ret[req] = ContinueReconciling => \A i \in 1..Len(calls[req]) : ~CallFailed(calls[req][i])

\* a real update failed and the invocation returned its error
C10_Witness ==
    /\ pc[Request1] = "done"
    /\ calls[Request1] # <<>>
    /\ calls[Request1][Len(calls[Request1])] = Call("update", TransientErr)
    /\ ret[Request1] = [result |-> "requeue", err |-> TransientErr]

\* C11 (no inline retry): within one invocation each of parent fetch, child
\* fetch, builder, create, dry-run update, real update and status update is
\* called at most once; a call that failed is the last call of the invocation,
\* except the builder failing after a not-found child fetch, which is followed
\* by the status update and nothing else; a failed dry run is never followed
\* by a real update.
C11_NoInlineRetry ==
    \A req \in Requests :
        /\ \A op \in {"getPerses", "get", "build", "create", "dryRun", "update", "statusUpdate"} :
              Count(calls[req], op) <= 1
        /\ \A i \in 1..Len(calls[req]) :
              (CallFailed(calls[req][i]) /\ i < Len(calls[req]))
              => /\ calls[req][i] = Call("build", "err")
                 /\ calls[req][i - 1] = Call("get", NotFoundErr)
                 /\ calls[req][i + 1].op = "statusUpdate"
                 /\ i + 1 = Len(calls[req])
        /\ (calls[req] # <<>> /\ CallFailed(calls[req][Len(calls[req])]))
              => \/ pc[req] = "done"
                 \/ pc[req] = "statusUpdate" /\ calls[req][Len(calls[req])] = Call("build", "err")

\* a dry run failed and the invocation ended there
C11_Witness ==
    /\ pc[Request1] = "done"
    /\ calls[Request1] = <<Call("getPerses", NilErr), Call("get", NilErr),
                           Call("build", NilErr), Call("dryRun", TransientErr)>>
    /\ IsRequeueWithError(ret[Request1])

\* C12 as stated (status on failure): an invocation that resolved its parent
\* and returned requeue-with-error has issued a status update for the parent.
C12_Original ==
    \A req \in Requests :
        (/\ pc[req] = "done"
         /\ HasCall(calls[req], "getPerses", NilErr)
         /\ IsRequeueWithError(ret[req]))
        => Count(calls[req], "statusUpdate") >= 1

\* C12 amended: an invocation issues a status update exactly when the builder
\* failed after a not-found child fetch; an invocation that fails for another
\* cause (child fetch error, build error with the child present, create,
\* dry-run or real update failure) issues none; the stored parent changes in
\* no step of an invocation but a status update that succeeds, which stores
\* the conditions of the local parent.
C12_StatusOnFailure ==
    [][\A req \in Requests :
         /\ Count(calls'[req], "statusUpdate") = 1
             <=> (HasCall(calls'[req], "get", NotFoundErr) /\ HasCall(calls'[req], "build", "err")
                  /\ pc'[req] = "done")
         /\ (calls'[req] # calls[req] /\ parents' # parents)
             => /\ Returns(req, "statusUpdate", NilErr)
                /\ parents'[req] = <<[parents[req][1] EXCEPT !.conditions = perses[req][1].conditions]>>
      ]_vars

\* a create failed: requeue-with-error, and no status update was issued
C12_Witness ==
    /\ pc[Request1] = "done"
    /\ calls[Request1] = <<Call("getPerses", NilErr), Call("get", NotFoundErr),
                           Call("build", NilErr), Call("create", TransientErr)>>
    /\ IsRequeueWithError(ret[Request1])
    /\ parents[Request1] # <<>> /\ parents[Request1][1].conditions = <<>>

\* C13 (update-path build failure): when the child fetch succeeds and
\* createPersesService fails, the invocation returns at once
\* requeue-with-error carrying the build error: no condition is set, no status
\* update, dry-run update or real update is issued, and the stored parent and
\* child are left as they are.
C13_UpdatePathBuildFailure ==
    [][\A req \in Requests :
         (/\ GetReturns(req, NilErr)
          /\ createPersesService(perses[req][1], scheme).err # NilErr)
         => /\ pc'[req] = "done"
            /\ ret'[req] = [result |-> "requeue", err |-> createPersesService(perses[req][1], scheme).err]
            /\ ret'[req].err \in {LabelsErr, OwnerRefErr}
            /\ calls'[req] = calls[req] \o <<Call("get", NilErr), Call("build", "err")>>
            /\ \A op \in {"statusUpdate", "dryRun", "update", "create"} : Count(calls'[req], op) = 0
            /\ parents' = parents
            /\ services' = services
      ]_vars

\* the child is stored, the parent's image became one the labels cannot be
\* derived from, and the pass ended with the build error
C13_Witness ==
    /\ pc[Request1] = "done"
    /\ calls[Request1] = <<Call("getPerses", NilErr), Call("get", NilErr), Call("build", "err")>>
    /\ ret[Request1] = RequeueWithError(LabelsErr)
    /\ services[Request1] # <<>>
    /\ parents[Request1] # <<>> /\ parents[Request1][1].conditions = <<>>

\* C14 (error carried after a create-path build failure): the status update
\* that follows the build failure ends the invocation with requeue-with-error;
\* the error is the build error when the status update succeeded and the
\* status-update error when it failed; no create is issued and the stored
\* Services are left as they are.
C14_ErrorAfterBuildFailure ==
    [][\A req \in Requests :
         \A e \in {NilErr, NotFoundErr, TransientErr, ConflictErr} :
            Returns(req, "statusUpdate", e)
            => /\ pc'[req] = "done"
               /\ HasCall(calls[req], "get", NotFoundErr)
               /\ ret'[req].result = "requeue"
               /\ e = NilErr => /\ ret'[req].err = createPersesService(perses[req][1], scheme).err
                                /\ ret'[req].err \in {LabelsErr, OwnerRefErr}
               /\ e # NilErr => ret'[req].err = e
               /\ Count(calls'[req], "create") = 0
               /\ services' = services
      ]_vars

\* the status update failed and its error was returned
C14_Witness ==
    /\ pc[Request1] = "done"
    /\ calls[Request1] = <<Call("getPerses", NilErr), Call("get", NotFoundErr),
                           Call("build", "err"), Call("statusUpdate", TransientErr)>>
    /\ ret[Request1] = RequeueWithError(TransientErr)
    /\ services[Request1] = <<>>

\* C15 (parent resolution halt): when resolving the parent ends in not-found
\* or in an error, the invocation returns at once what the resolution
\* returned (do-not-requeue with no error for not-found, requeue with the
\* error otherwise); the parent fetch is its only call and the cluster is left
\* as it is.
C15_ParentResolutionHalt ==
    [][\A req \in Requests :
         \A e \in {NotFoundErr, TransientErr} :
            Returns(req, "getPerses", e)
            => /\ pc'[req] = "done"
               /\ ret'[req] = IF e = NotFoundErr
                              THEN [result |-> "norequeue", err |-> NilErr]
                              ELSE [result |-> "requeue", err |-> e]
               /\ calls'[req] = <<Call("getPerses", e)>>
               /\ cluster' = cluster
               /\ locals' = locals
      ]_vars

\* the parent is gone: the invocation halted without a requeue
C15_Witness ==
    /\ pc[Request1] = "done"
    /\ parents[Request1] = <<>>
    /\ calls[Request1] = <<Call("getPerses", NotFoundErr)>>
    /\ ret[Request1] = DoNotRequeue

\* the fields of a Service
ServiceFields == {"name", "namespace", "annotations", "labels", "type", "ports", "selector",
                  "ownerReferences", "uid", "resourceVersion"}

\* C16 (full-structure drift check): after a successful dry run the real
\* update is the next call exactly when the observed child and the desired
\* child as the dry run returned it differ in some field, whichever it is, and
\* otherwise the invocation returns continue; the real update is issued once,
\* and when it succeeds the stored child is the normalized desired child in
\* every field but the resourceVersion, which is new.
C16_FullStructureDriftCheck ==
    [][\A req \in Requests :
         /\ Returns(req, "dryRun", NilErr)
             => LET stored == services[<<perses[req][1].name, perses[req][1].namespace>>][1]
                    normalized == [svc[req][1] EXCEPT !.uid = stored.uid,
                                                      !.resourceVersion = stored.resourceVersion]
                    differ == \E f \in ServiceFields : found[req][1][f] # normalized[f]
                IN  /\ DOMAIN found[req][1] = ServiceFields
                    /\ differ => pc'[req] = "update" /\ svc'[req] = <<normalized>>
                    /\ ~differ => pc'[req] = "done" /\ ret'[req] = ContinueReconciling
         /\ Returns(req, "update", NilErr)
             => /\ Count(calls'[req], "update") = 1
                /\ \A f \in ServiceFields \ {"resourceVersion"} :
                      services'[req][1][f] = svc[req][1][f]
                /\ services'[req][1].resourceVersion = clock'[req]
      ]_vars

\* the child was created, edited out of band, and the next pass rewrote it:
\* it is the desired child again
C16_Witness ==
    /\ pc[Request1] = "done" /\ ret[Request1] = ContinueReconciling /\ ext = 1
    /\ calls[Request1] = <<Call("getPerses", NilErr), Call("get", NilErr), Call("build", NilErr),
                           Call("dryRun", NilErr), Call("update", NilErr)>>
    /\ services[Request1] # <<>>
    /\ services[Request1][1].uid = 2 /\ services[Request1][1].resourceVersion = 4
    /\ Converged(Request1)

\* C17 (desired annotations and labels): the child an invocation has built,
\* before and after the dry run, has the annotations the parent configures
\* when the parent's metadata and its annotations are set and no annotations
\* otherwise, and labels and selector both equal to the derived label set,
\* whatever the observed child holds; the child stored by a successful create
\* or real update has those annotations and labels.
C17_DesiredAnnotationsAndLabels ==
    [][\A req \in Requests :
         LET P == perses[req][1]
             annotations == IF P.metadata = <<>> THEN {}
                            ELSE IF P.metadata[1].annotations = <<>> THEN {}
                            ELSE P.metadata[1].annotations[1]
             derived == [name |-> P.name, version |-> P.image]
         IN  /\ pc[req] \in {"create", "dryRun", "update"}
                 => /\ svc[req][1].annotations = annotations
                    /\ svc[req][1].labels = derived
                    /\ svc[req][1].selector = derived
             /\ (Returns(req, "create", NilErr) \/ Returns(req, "update", NilErr))
                 => /\ services'[req][1].annotations = annotations
                    /\ services'[req][1].labels = derived
                    /\ services'[req][1].selector = derived
      ]_vars

\* the observed child carries an annotation the parent does not configure,
\* and the desired child about to be written does not carry it
C17_Witness ==
    /\ pc[Request1] = "update"
    /\ "stale=1" \in found[Request1][1].annotations
    /\ perses[Request1][1].metadata # <<>>
    /\ perses[Request1][1].metadata[1].annotations = <<{"team=a"}>>
    /\ svc[Request1][1].annotations = {"team=a"}

\* the conditions a parent's status may hold instead of the ones it holds
OtherConditions(p) ==
    {<<>>, <<RunningCondition>>,
     <<[type |-> "Available", status |-> "False", reason |-> "Reconciling",
        message |-> <<"Failed to create Service for the custom resource", p.name, LabelsErr>>]>>,
     <<[type |-> "Available", status |-> "False", reason |-> "Reconciling",
        message |-> <<"Failed to create Service for the custom resource", p.name, OwnerRefErr>>]>>}

\* C18 (status is write-only): from every state the controller reaches, an
\* invocation run on the stored parent and child and an invocation run on the
\* same parent and child with other status conditions, with the same call
\* failing in both, make the same calls with the same results, return the
\* same result and error and store the same child.
C18_StatusWriteOnly ==
    \A req \in Requests :
        parents[req] # <<>>
        => \A fault \in CallNames \cup {"none"} :
              \A conds \in OtherConditions(parents[req][1]) :
                 LET one == Pass(parents[req], services[req], scheme, fault, clock[req] + 1)
                     other == Pass(<<[parents[req][1] EXCEPT !.conditions = conds]>>,
                                   services[req], scheme, fault, clock[req] + 1)
                 IN  /\ one.calls = other.calls
                     /\ one.ret = other.ret
                     /\ one.child = other.child

\* the stored parent reports a build failure, and an invocation from here
\* reports it again, as it does from a parent without conditions
C18_Witness ==
    /\ pc[Request1] = "done"
    /\ parents[Request1] # <<>>
    /\ \E i \in 1..Len(parents[Request1][1].conditions) :
          IsBuildFailure(parents[Request1][1].conditions[i])
    /\ Pass(parents[Request1], services[Request1], scheme, "none", clock[Request1] + 1).calls
          = <<Call("getPerses", NilErr), Call("get", NotFoundErr),
              Call("build", "err"), Call("statusUpdate", NilErr)>>

\* a step of the invocation for req
StepOf(req) == pc'[req] # pc[req] \/ calls'[req] # calls[req]

\* C19 (concurrent reconciles of distinct parents do not interfere): a step of
\* one parent's invocation changes neither the other parent, nor any child but
\* the one with its own parent's identity, nor anything of the other
\* invocation, and the parent and child it holds carry its own identity; and
\* an invocation whose own parent and child nobody else changed while it ran,
\* whatever the invocation for the other parent did meanwhile, has made the
\* calls, returned the signal and left the child and the status conditions
\* that an invocation run alone from the state it began in makes, returns and
\* leaves, for some choice of the call that fails.
C19_NoInterference ==
    [][\A req \in Requests :
         /\ StepOf(req)
            => /\ \A other \in Requests \ {req} :
                     /\ parents'[other] = parents[other]
                     /\ pc'[other] = pc[other] /\ calls'[other] = calls[other]
                     /\ ret'[other] = ret[other] /\ perses'[other] = perses[other]
                     /\ found'[other] = found[other] /\ svc'[other] = svc[other]
                     /\ err2'[other] = err2[other]
               /\ \A k \in Keys \ {req} : services'[k] = services[k]
               /\ perses'[req] # <<>> => ServiceKey(perses'[req][1]) = req
               /\ found'[req] # <<>> => ObjectKey(found'[req][1]) = req
               /\ svc'[req] # <<>> => ObjectKey(svc'[req][1]) = req
         /\ (StepOf(req) /\ pc'[req] = "done" /\ begun'[req] # <<>>)
            => \E fault \in CallNames \cup {"none"} :
                  LET alone == Pass(begun'[req][1].parent, begun'[req][1].child, scheme,
                                    fault, begun'[req][1].clock + 1)
                  IN  /\ calls'[req] = alone.calls
                      /\ ret'[req] = alone.ret
                      /\ services'[req] = alone.child
                      /\ alone.conditions = IF parents'[req] = <<>> THEN <<>>
                                             ELSE parents'[req][1].conditions
      ]_vars

\* both invocations are in flight at once, and the first has created its
\* child while the second is still about to fetch its own
C19_Witness ==
    /\ pc[Request1] = "done" /\ begun[Request1] # <<>>
    /\ HasCall(calls[Request1], "create", NilErr)
    /\ pc[Request2] = "create" /\ begun[Request2] # <<>>
    /\ services[Request1] # <<>> /\ services[Request2] = <<>>

\* C20 (at most one persisted write per invocation, never a delete): the calls
\* of an invocation hold at most one create, real update or status update
\* between them; a create is issued only after the child fetch of the same
\* invocation returned not-found, and a dry-run or real update only after it
\* succeeded; no step of an invocation makes a stored child absent, a create
\* that succeeds finds no child stored and an update that succeeds finds one.
C20_AtMostOneWrite ==
    [][\A req \in Requests :
         /\ PersistedWrites(calls'[req]) <= 1
         /\ Count(calls'[req], "create") > 0
            => HasCall(calls'[req], "get", NotFoundErr) /\ ~HasCall(calls'[req], "get", NilErr)
         /\ Count(calls'[req], "dryRun") + Count(calls'[req], "update") > 0
            => HasCall(calls'[req], "get", NilErr) /\ ~HasCall(calls'[req], "get", NotFoundErr)
         /\ Count(calls'[req], "get") <= 1
         /\ \A c \in 1..Len(calls'[req]) : calls'[req][c].op \in CallNames \cup {"build"}
         /\ StepOf(req)
            => /\ \A k \in Keys : services[k] # <<>> => services'[k] # <<>>
               /\ Returns(req, "create", NilErr) => services[req] = <<>> /\ services'[req] # <<>>
               /\ Returns(req, "update", NilErr) => services[req] # <<>> /\ services'[req] # <<>>
      ]_vars

\* an invocation found the child, saw drift and wrote once: its only write is
\* the real update, after a child fetch that succeeded and a dry run
C20_Witness ==
    /\ pc[Request1] = "done"
    /\ calls[Request1] = <<Call("getPerses", NilErr), Call("get", NilErr), Call("build", NilErr),
                           Call("dryRun", NilErr), Call("update", NilErr)>>
    /\ PersistedWrites(calls[Request1]) = 1
    /\ services[Request1] # <<>>

====
